---- MODULE Spec2Model ----
(***************************************************************************)
(* A model of the combinatorial query generator and the concurrent batch   *)
(* execution pipeline of demo-ssb: UnravelIndex, QuerySet, and             *)
(* Server.RunSumMultiBatch with its producer goroutine, its worker         *)
(* goroutines (Server.runRawSumBatchQuery), the goroutine that closes the  *)
(* results channel, and the collector loop.                                *)
(*                                                                         *)
(* Go slices are 0-based; the sequences here are 1-based, so the Go        *)
(* element x[k] is the element x[k + 1] of the model.                      *)
(***************************************************************************)
EXTENDS Integers, Sequences, FiniteSets, TLC

\* ------------------------------------------------------------------ bounds

\* The largest worker count a run is started with.
MaxConc == 2
\* The largest batch size a run is started with.
MaxBatch == 2
\* The largest iteration count of a QuerySet that is run through the pipeline.
MaxIter == 3
\* The number of different kinds of fault the environment injects in one run.
MaxFaults == 1
\* The largest elapsed time (whole seconds) a run reports.
MaxElapsed == 0
\* The enumerator is applied to at most MaxDim dimensions ...
MaxDim == 3
\* ... each of cardinality at most MaxCard.
MaxCard == 3

\* ------------------------------------------------------------ Go's values

\* Go's nil error.
Nil == "nil"
\* An interface{} value: the nil interface, or one holding the int v.
NilValue == <<>>
IntValue(v) == <<v>>
\* The non-nil error a failed call returns.
Err == "error"

\* s.NumLineOrders: what getLineOrderCount returned when the server started.
NumLineOrders == 666

\* ------------------------------------------------------------- enumerator

\* for n := start; n < stop; n += step { x = append(x, n) }
RECURSIVE arangeLoop(_, _, _, _)
arangeLoop(x, n, stop, step) ==
    IF n < stop THEN arangeLoop(Append(x, n), n + step, stop, step) ELSE x

arange(start, stop, step) == arangeLoop(<<>>, start, stop, step)

\* The loop of UnravelIndex, from Go index n on:
\*   indexN[n] = (index1 / denom) % (dim[n]); denom *= dim[n]
\* Go's / and % truncate; on the non-negative operands used here they are
\* \div and %.
RECURSIVE UnravelLoop(_, _, _, _, _)
UnravelLoop(n, denom, indexN, index1, dim) ==
    IF n < Len(dim)
    THEN UnravelLoop(n + 1, denom * dim[n + 1],
                     [indexN EXCEPT ![n + 1] = (index1 \div denom) % dim[n + 1]],
                     index1, dim)
    ELSE indexN

\* UnravelIndex without `denom *= dim[n]`: every dimension is taken modulo its
\* cardinality from the index itself.
UnravelIndexNoStride(index1, dim) == [k \in 1..Len(dim) |-> index1 % dim[k]]

UnravelIndex(index1, dim) ==
    UnravelLoop(0, 1, [k \in 1..Len(dim) |-> 0], index1, dim)

\* --------------------------------------------------------------- QuerySet

\* iterations *= len(argsets[n]) for n from the given Go index on.
RECURSIVE IterationsLoop(_, _, _)
IterationsLoop(n, iterations, argsets) ==
    IF n < Len(argsets)
    THEN IterationsLoop(n + 1, iterations * Len(argsets[n + 1]), argsets)
    ELSE iterations

\* A template is modelled by the number of %d verbs it holds.
NewQuerySet(name, fmt, argsets) ==
    [Name       |-> name,
     Format     |-> fmt,
     ArgSets    |-> argsets,
     setup      |-> "",
     teardown   |-> "",
     dim        |-> Len(argsets),
     iterations |-> IterationsLoop(0, 1, argsets),
     lengths    |-> [k \in 1..Len(argsets) |-> Len(argsets[k])]]

NewRegisterQuerySet(name, fmt, setup, teardown, argsets) ==
    [NewQuerySet(name, fmt, argsets) EXCEPT !.setup = setup, !.teardown = teardown]

\* What NewQuerySet builds from an empty template and no argument grid,
\* instead of the zero value: it has one iteration.
ZeroQuerySetOneIteration == NewQuerySet("", 0, <<>>)

\* var qs QuerySet: Go's zero value, which getQuerySet returns for a name that
\* no case of its switch matches.
ZeroQuerySet ==
    [Name       |-> "",
     Format     |-> 0,
     ArgSets    |-> <<>>,
     setup      |-> "",
     teardown   |-> "",
     dim        |-> 0,
     iterations |-> 0,
     lengths    |-> <<>>]

\* fmt.Sprintf(format + "\n", args...) for a format of `verbs` %d verbs: verb k
\* prints args[k] (modelled <<args[k]>>), a verb with no argument left prints
\* %!d(MISSING) (modelled <<>>), and the arguments no verb consumed are
\* appended as %!(EXTRA ...).
Sprintf(verbs, args) ==
    [text  |-> [k \in 1..verbs |-> IF k <= Len(args) THEN <<args[k]>> ELSE <<>>],
     extra |-> IF Len(args) > verbs THEN SubSeq(args, verbs + 1, Len(args)) ELSE <<>>]

\* Args with the position in each dimension off by one (wrapping around).
ArgsShifted(s, n) ==
    LET inds == UnravelIndex(n, s.lengths)
    IN  [k \in 1..s.dim |-> s.ArgSets[k][((inds[k] + 1) % Len(s.ArgSets[k])) + 1]]

\* inds := UnravelIndex(n, s.lengths); args[k] = s.ArgSets[k][inds[k]]
Args(s, n) ==
    LET inds == UnravelIndex(n, s.lengths)
    IN  [k \in 1..s.dim |-> s.ArgSets[k][inds[k] + 1]]

\* A raw query string is modelled as the sequence of the single queries it is
\* the concatenation of; QueryN renders one.
QueryN(s, n) == <<Sprintf(s.Format, Args(s, n))>>

QueryResultN(s, n) ==
    [raw     |-> <<Sprintf(s.Format, Args(s, n))>>,
     inputs  |-> Args(s, n),
     outputs |-> <<NilValue>>,
     err     |-> Nil]

\* ------------------------------------------------- the engine and its faults

\* Stride encoding of an N-dimensional index: the sum of idx[k] times the
\* product of the cardinalities before k.
RECURSIVE Ravel(_, _)
Ravel(idx, dim) ==
    IF Len(idx) = 0 THEN 0
    ELSE idx[1] + dim[1] * Ravel(Tail(idx), Tail(dim))

\* The Go index of the first element of x equal to v.
IndexOf(x, v) == (CHOOSE i \in 1..Len(x) : x[i] = v /\ \A j \in 1..(i - 1) : x[j] # v) - 1

\* The echoing engine of the specification's tests: the Sum it returns for a
\* single query is the iteration index of that query in the QuerySet s, which
\* it reads back from the arguments printed in the query text.
EchoSum(s, q) ==
    Ravel([k \in 1..s.dim |-> IndexOf(s.ArgSets[k], q.text[k][1])], s.lengths)

\* A *QueryResponse: nil, or a response with its ResultList.
NilResponse == [isNil |-> TRUE, ResultList |-> <<>>]
Response(results) == [isNil |-> FALSE, ResultList |-> results]

\* The engine's answer to a compound request: one result per single query,
\* in request order.
EchoResults(s, raw) == [k \in 1..Len(raw) |-> [Sum |-> EchoSum(s, raw[k])]]

\* What Client.Query returns for a compound request: "ok" is the answer of the
\* engine, "short" the answer of an engine that leaves out the last result,
\* "error" a transport or engine error, for which the client returns a nil
\* response and the error.
QueryOutcome(s, raw, outcome) ==
    CASE outcome = "ok"    -> [response |-> Response(EchoResults(s, raw)), err |-> Nil]
      [] outcome = "short" -> [response |-> Response(SubSeq(EchoResults(s, raw), 1, Len(raw) - 1)),
                               err |-> Nil]
      [] outcome = "error" -> [response |-> NilResponse, err |-> Err]

\* ------------------------------------------------------------------ state

VARIABLES
    qs,             \* RunSumMultiBatch's QuerySet
    concurrency,    \* RunSumMultiBatch's concurrency
    batchSize,      \* RunSumMultiBatch's batchSize
    now,            \* the wall clock time.Now() reads, in whole seconds
    timestamp,      \* RunSumMultiBatch's timestamp
    mainPC,         \* where RunSumMultiBatch is
    ret,            \* <<>>, or <<the BenchmarkResult RunSumMultiBatch returned>>
    sink,           \* the lines of the results file f
    res,            \* <<>>, or <<the QueryResult the collector loop received>>
    prodPC,         \* where the producer goroutine is
    n,              \* the producer's loop variable n
    qBatch,         \* the producer's qBatch
    batchCount,     \* the producer's batchCount
    batchesClosed,  \* close(batches) was executed
    resultsClosed,  \* close(results) was executed
    workers,        \* the worker goroutines, by number
    wg,             \* the WaitGroup's counter
    closerPC,       \* where the goroutine of wg.Wait(); close(results) is
    crashed,        \* a goroutine panicked: the process is gone
    setupSent,      \* how often the setup query was sent to the engine
    teardownSent,   \* how often the teardown query was sent to the engine
    emitted,        \* history: the batches sent on the batches channel, in order
    requests,       \* history: the compound requests sent to the engine, in order
    faults,         \* history: the kinds of fault the environment injected
    uQS,            \* the QuerySet that is enumerated
    uN,             \* the next iteration index to enumerate
    uOut,           \* what UnravelIndex, QueryN and QueryResultN returned so far
    pass,           \* HandleQuery's sweep: the number of the pass that runs, 0 outside a sweep
    hqResults,      \* HandleQuery's results: the summaries collected so far
    stale,          \* the goroutines that passes left behind when they returned
    created         \* history: the paths of the results files the finished passes created

runVars == <<qs, concurrency, batchSize, now, timestamp, mainPC, ret, sink, res, prodPC, n, qBatch,
             batchCount, batchesClosed, resultsClosed, workers, wg, closerPC, crashed,
             setupSent, teardownSent, emitted, requests, faults>>
enumVars == <<uQS, uN, uOut>>
sweepVars == <<pass, hqResults, stale, created>>
vars == <<runVars, enumVars, sweepVars>>

\* ----------------------------------------------------------------- inputs

RECURSIVE Product(_)
Product(dim) == IF Len(dim) = 0 THEN 1 ELSE dim[1] * Product(Tail(dim))

\* The sequences of at most d cardinalities, each in lo..hi.
Shapes(d, lo, hi) == UNION {[1..k -> lo..hi] : k \in 0..d}

\* The argument grids of the QuerySets that are run: dimension k (Go index) of
\* cardinality m is arange(10*k, 10*k + m, 1), as the catalogue builds its
\* grids with arange. A dimension of cardinality 1 adds the same value to
\* every tuple, so it is kept only in the grid of one dimension.
RunShapes ==
    {<<1>>} \cup {dim \in Shapes(2, 2, MaxIter) : Len(dim) > 0 /\ Product(dim) <= MaxIter}

ArgSetsOf(dim) == [k \in 1..Len(dim) |-> arange(10 * (k - 1), 10 * (k - 1) + dim[k], 1)]

\* The QuerySets that are run: built by NewQuerySet or, with a setup and a
\* teardown query, by NewRegisterQuerySet, each with one verb per dimension;
\* and the zero QuerySet of an unknown name.
RunQuerySets ==
    {NewQuerySet("q", Len(dim), ArgSetsOf(dim)) : dim \in RunShapes}
    \cup {NewRegisterQuerySet("q", Len(dim), "setup", "teardown", ArgSetsOf(dim)) :
            dim \in RunShapes}
    \cup {ZeroQuerySet}

Workers == 1..MaxConc

\* A worker goroutine that was not started.
IdleWorker ==
    [pc |-> "idle", batch |-> <<>>, raw |-> <<>>, response |-> NilResponse, err |-> Nil,
     n |-> 0, sent |-> <<>>]

\* A worker goroutine at `for batch := range batches`: what its variables hold
\* from the batch before is dead, each is assigned before it is read again.
WaitingWorker == [IdleWorker EXCEPT !.pc = "range"]

\* The environment injects faults (the kinds are "create", "setup", "error",
\* "short", "write", "teardown") of at most MaxFaults kinds in a run.
CanFault(kind) == Cardinality(faults \cup {kind}) <= MaxFaults

\* The run variables but crashed and faults.
aliveVars == <<qs, concurrency, batchSize, now, timestamp, mainPC, ret, sink, res, prodPC, n,
               qBatch, batchCount, batchesClosed, resultsClosed, workers, wg, closerPC,
               setupSent, teardownSent, emitted, requests>>

Alive == ~crashed

\* The goroutines of the pool are anonymous and those waiting in `range
\* batches` are all in the same state, so which of them a send or the close
\* wakes is only a matter of names: the one with the least number.
NextWaiting(w) ==
    /\ workers[w].pc = "range"
    /\ \A v \in Workers : v < w => workers[v].pc # "range"

EnumIdle == uQS = ZeroQuerySet /\ uN = 0 /\ uOut = <<>>

\* HandleQuery with qtype = "query": no sweep.
SweepIdle == pass = 0 /\ hqResults = <<>> /\ stale = <<>> /\ created = <<>>

\* RunSumMultiBatch is entered with the QuerySet s, c workers and batch size b.
RunInit(s, c, b) ==
    /\ qs = s
    /\ concurrency = c
    /\ batchSize = b
    /\ now = 0
    /\ timestamp = 0
    /\ mainPC = "create"
    /\ ret = <<>>
    /\ sink = <<>>
    /\ res = <<>>
    /\ prodPC = "idle"
    /\ n = 0
    /\ qBatch = <<>>
    /\ batchCount = 0
    /\ batchesClosed = FALSE
    /\ resultsClosed = FALSE
    /\ workers = [w \in Workers |-> IdleWorker]
    /\ wg = 0
    /\ closerPC = "idle"
    /\ crashed = FALSE
    /\ setupSent = 0
    /\ teardownSent = 0
    /\ emitted = <<>>
    /\ requests = <<>>
    /\ faults = {}

Init ==
    /\ \E s \in RunQuerySets, c \in 1..MaxConc, b \in 1..MaxBatch : RunInit(s, c, b)
    /\ EnumIdle
    /\ SweepIdle

\* ------------------------------------------------------- RunSumMultiBatch

\* BenchmarkResult{qs.Name, 0, 0, 0, -1, 0, timestamp}
FailedResult(ts) ==
    [Name |-> qs.Name, Iterations |-> 0, Concurrency |-> 0, BatchSize |-> 0,
     Seconds |-> -1, ColumnCount |-> 0, Timestamp |-> ts]

\* BenchmarkResult{qs.Name, qs.iterations, concurrency, batchSize, seconds,
\*                 s.NumLineOrders, timestamp}
BenchmarkResult(seconds) ==
    [Name |-> qs.Name, Iterations |-> qs.iterations, Concurrency |-> concurrency,
     BatchSize |-> batchSize, Seconds |-> seconds, ColumnCount |-> NumLineOrders,
     Timestamp |-> timestamp]

\* seconds := time.Now().Sub(start).Seconds(); return BenchmarkResult{...}:
\* the elapsed time is some non-negative number.
ReturnSummary ==
    \E seconds \in 0..MaxElapsed :
        /\ ret' = <<BenchmarkResult(seconds)>>
        /\ mainPC' = "returned"

ReturnFailed ==
    /\ ret' = <<FailedResult(timestamp)>>
    /\ mainPC' = "returned"

\* The producer's loop without `if batchCount > 0 { batches <- qBatch }`: the
\* last, shorter batch is never sent.
RECURSIVE FillBatchDropsLast(_, _, _, _, _)
FillBatchDropsLast(s, size, i, batch, count) ==
    IF i < s.iterations
    THEN LET qq == QueryResultN(s, i)
         IN  IF count + 1 = size
             THEN [pc |-> "send452", n |-> i, qBatch |-> Append(batch, qq),
                   batchCount |-> count + 1]
             ELSE FillBatchDropsLast(s, size, i + 1, Append(batch, qq), count + 1)
    ELSE [pc |-> "close", n |-> i, qBatch |-> batch, batchCount |-> count]

\* The producer's loop from its test n < qs.iterations, run to the next
\* channel operation: the send of a full batch, the send of the last, shorter
\* batch, or close(batches).
RECURSIVE FillBatch(_, _, _, _, _)
FillBatch(s, size, i, batch, count) ==
    IF i < s.iterations
    THEN LET qq == QueryResultN(s, i)
         IN  IF count + 1 = size
             THEN [pc |-> "send452", n |-> i, qBatch |-> Append(batch, qq),
                   batchCount |-> count + 1]
             ELSE FillBatch(s, size, i + 1, Append(batch, qq), count + 1)
    ELSE IF count > 0
         THEN [pc |-> "send458", n |-> i, qBatch |-> batch, batchCount |-> count]
         ELSE [pc |-> "close", n |-> i, qBatch |-> batch, batchCount |-> count]

\* timestamp := ...; os.MkdirAll; os.Create; go func() {...}(): the results
\* file is created empty and the producer goroutine is started and runs to
\* its first channel operation, or creating the directory or the file fails
\* and the run returns the failed result.
CreateResultsFile ==
    /\ Alive
    /\ mainPC = "create"
    /\ timestamp' = now
    /\ \E ok \in BOOLEAN :
        /\ ok \/ CanFault("create")
        /\ IF ok
           THEN /\ sink' = <<>>
                /\ LET p == FillBatch(qs, batchSize, 0, <<>>, 0)
                   IN  /\ prodPC' = p.pc
                       /\ n' = p.n
                       /\ qBatch' = p.qBatch
                       /\ batchCount' = p.batchCount
                /\ mainPC' = "setup"
                /\ UNCHANGED <<ret, faults>>
           ELSE /\ ret' = <<FailedResult(now)>>
                /\ mainPC' = "returned"
                /\ faults' = faults \cup {"create"}
                /\ UNCHANGED <<sink, prodPC, n, qBatch, batchCount>>
    /\ UNCHANGED <<qs, concurrency, batchSize, now, res, batchesClosed,
                   resultsClosed, workers, wg, closerPC, crashed, setupSent, teardownSent,
                   emitted, requests, enumVars, sweepVars>>

\* RunSetup without the setup query: the workers are started right away.
RunSetupNoQuery ==
    /\ Alive
    /\ mainPC = "setup"
    /\ mainPC' = "workers"
    /\ UNCHANGED <<qs, concurrency, batchSize, now, timestamp, ret, sink, res, prodPC, n, qBatch,
                   batchCount, batchesClosed, resultsClosed, workers, wg, closerPC, crashed,
                   setupSent, teardownSent, emitted, requests, faults, enumVars, sweepVars>>

\* if qs.setup != "" { s.Client.Query(s.Index.RawQuery(qs.setup), nil) ...: the
\* request is sent.
RunSetup ==
    /\ Alive
    /\ mainPC = "setup"
    /\ IF qs.setup # ""
       THEN /\ setupSent' = setupSent + 1
            /\ mainPC' = "setupQuery"
       ELSE /\ mainPC' = "workers"
            /\ UNCHANGED setupSent
    /\ UNCHANGED <<qs, concurrency, batchSize, now, timestamp, ret, sink, res, prodPC, n, qBatch,
                   batchCount, batchesClosed, resultsClosed, workers, wg, closerPC, crashed,
                   teardownSent, emitted, requests, faults, enumVars, sweepVars>>

\* SetupResponse ignoring the error of the setup query.
SetupResponseIgnoresError ==
    /\ Alive
    /\ mainPC = "setupQuery"
    /\ \E ok \in BOOLEAN :
        /\ ok \/ CanFault("setup")
        /\ mainPC' = "workers"
        /\ faults' = IF ok THEN faults ELSE faults \cup {"setup"}
    /\ UNCHANGED <<qs, concurrency, batchSize, now, timestamp, ret, sink, res, prodPC, n, qBatch,
                   batchCount, batchesClosed, resultsClosed, workers, wg, closerPC, crashed,
                   setupSent, teardownSent, emitted, requests, enumVars, sweepVars>>

\* The setup query returns: if err != nil { return BenchmarkResult{... -1 ...} }
SetupResponse ==
    /\ Alive
    /\ mainPC = "setupQuery"
    /\ \E ok \in BOOLEAN :
        /\ ok \/ CanFault("setup")
        /\ IF ok
           THEN /\ mainPC' = "workers"
                /\ UNCHANGED <<ret, faults>>
           ELSE /\ ReturnFailed
                /\ faults' = faults \cup {"setup"}
    /\ UNCHANGED <<qs, concurrency, batchSize, now, timestamp, sink, res, prodPC, n, qBatch,
                   batchCount, batchesClosed, resultsClosed, workers, wg, closerPC, crashed,
                   setupSent, teardownSent, emitted, requests, enumVars, sweepVars>>

\* StartWorkers with the loop `for n := 0; n <= concurrency; n++`: one worker
\* more is started, when the pool has room for it.
StartWorkersOneMore ==
    /\ Alive
    /\ mainPC = "workers"
    /\ workers' = [w \in Workers |->
                     IF w <= concurrency + 1 THEN WaitingWorker ELSE IdleWorker]
    /\ wg' = Cardinality({w \in Workers : w <= concurrency + 1})
    /\ closerPC' = "wait"
    /\ mainPC' = "range"
    /\ UNCHANGED <<qs, concurrency, batchSize, now, timestamp, ret, sink, res, prodPC, n, qBatch,
                   batchCount, batchesClosed, resultsClosed, crashed, setupSent, teardownSent,
                   emitted, requests, faults, enumVars, sweepVars>>

\* for n := 0; n < concurrency; n++ { wg.Add(1); go func() {...}() }
\* go func() { wg.Wait(); close(results) }()
StartWorkers ==
    /\ Alive
    /\ mainPC = "workers"
    /\ workers' = [w \in Workers |->
                     IF w <= concurrency THEN WaitingWorker ELSE IdleWorker]
    /\ wg' = concurrency
    /\ closerPC' = "wait"
    /\ mainPC' = "range"
    /\ UNCHANGED <<qs, concurrency, batchSize, now, timestamp, ret, sink, res, prodPC, n, qBatch,
                   batchCount, batchesClosed, resultsClosed, crashed, setupSent, teardownSent,
                   emitted, requests, faults, enumVars, sweepVars>>

\* --------------------------------------------------------------- producer

\* AfterSend without `qBatch = make([]QueryResult, 0, batchSize)`: the next
\* batch is appended to the one just sent.
AfterSendKeepsBatch(s, size, pc, i, batch, count) ==
    IF pc = "send452"
    THEN FillBatch(s, size, i + 1, batch, 0)
    ELSE [pc |-> "close", n |-> i, qBatch |-> batch, batchCount |-> count]

\* The producer after its send completed: after the send in the loop,
\* batchCount = 0; qBatch = make(...); n++ and the loop goes on to its next
\* channel operation; after the send of the last batch, close(batches) is next.
AfterSend(s, size, pc, i, batch, count) ==
    IF pc = "send452"
    THEN FillBatch(s, size, i + 1, <<>>, 0)
    ELSE [pc |-> "close", n |-> i, qBatch |-> batch, batchCount |-> count]

\* raw := ""; for _, q := range batch { raw += q.raw }
RECURSIVE RawOf(_)
RawOf(batch) == IF Len(batch) = 0 THEN <<>> ELSE batch[1].raw \o RawOf(Tail(batch))

\* A worker that received `batch` from the batches channel: it builds the
\* compound request and calls s.Client.Query.
WorkerQuery(wk, batch) ==
    [wk EXCEPT !.pc = "query", !.batch = batch, !.raw = RawOf(batch),
               !.response = NilResponse, !.err = Nil, !.n = 0, !.sent = <<>>]

\* BatchHandoff with a queue that hands the batch to every worker that
\* waits for one.
BatchHandoffBroadcast(w) ==
    /\ Alive
    /\ prodPC \in {"send452", "send458"}
    /\ NextWaiting(w)
    /\ LET p == AfterSend(qs, batchSize, prodPC, n, qBatch, batchCount)
       IN  /\ prodPC' = p.pc
           /\ n' = p.n
           /\ qBatch' = p.qBatch
           /\ batchCount' = p.batchCount
           /\ workers' = [v \in Workers |->
                            IF workers[v].pc = "range"
                            THEN WorkerQuery(workers[v], qBatch)
                            ELSE workers[v]]
           /\ emitted' = Append(emitted, qBatch)
           /\ requests' = Append(requests, RawOf(qBatch))
    /\ UNCHANGED <<qs, concurrency, batchSize, now, timestamp, mainPC, ret, sink, res,
                   batchesClosed, resultsClosed, wg, closerPC, crashed, setupSent,
                   teardownSent, faults, enumVars, sweepVars>>

\* batches <- qBatch meets a worker's `for batch := range batches`: the
\* channel is unbuffered, so the send and the receive are one step. The
\* worker then sends its compound request to the engine.
BatchHandoff(w) ==
    /\ Alive
    /\ prodPC \in {"send452", "send458"}
    /\ NextWaiting(w)
    /\ LET p == AfterSend(qs, batchSize, prodPC, n, qBatch, batchCount)
           wk == WorkerQuery(workers[w], qBatch)
       IN  /\ prodPC' = p.pc
           /\ n' = p.n
           /\ qBatch' = p.qBatch
           /\ batchCount' = p.batchCount
           /\ workers' = [workers EXCEPT ![w] = wk]
           /\ emitted' = Append(emitted, qBatch)
           /\ requests' = Append(requests, wk.raw)
    /\ UNCHANGED <<qs, concurrency, batchSize, now, timestamp, mainPC, ret, sink, res,
                   batchesClosed, resultsClosed, wg, closerPC, crashed, setupSent,
                   teardownSent, faults, enumVars, sweepVars>>

\* close(batches)
ProducerClose ==
    /\ Alive
    /\ prodPC = "close"
    /\ batchesClosed' = TRUE
    /\ prodPC' = "done"
    /\ UNCHANGED <<qs, concurrency, batchSize, now, timestamp, mainPC, ret, sink, res, n, qBatch,
                   batchCount, resultsClosed, workers, wg, closerPC, crashed, setupSent,
                   teardownSent, emitted, requests, faults, enumVars, sweepVars>>

\* ---------------------------------------------------------------- workers

\* QueryResult{raw, []interface{}{}, []interface{}{}, err}
ErrorRecord(raw, err) == [raw |-> raw, inputs |-> <<>>, outputs |-> <<>>, err |-> err]

\* ResultsLoop attaching the results to the batch's records in reverse order.
ResultsLoopMisattributes(wk, i) ==
    IF wk.response.isNil
    THEN [wk EXCEPT !.pc = "panic"]
    ELSE IF i < Len(wk.response.ResultList)
         THEN IF i < Len(wk.batch)
              THEN [wk EXCEPT !.pc = "send546", !.n = i,
                              !.batch[i + 1].outputs =
                                  <<IntValue(wk.response.ResultList[
                                        Len(wk.response.ResultList) - i].Sum)>>]
              ELSE [wk EXCEPT !.pc = "panic"]
         ELSE WaitingWorker

\* for n, res := range response.Results() at Go index i: Results() of a nil
\* response dereferences nil and batch[n] past the batch is out of range,
\* both of which panic; otherwise batch[n].outputs = []interface{}{int(res.Sum)}
\* and the worker is at results <- batch[n], or the loop is over and the
\* worker is back at `range batches`.
ResultsLoop(wk, i) ==
    IF wk.response.isNil
    THEN [wk EXCEPT !.pc = "panic"]
    ELSE IF i < Len(wk.response.ResultList)
         THEN IF i < Len(wk.batch)
              THEN [wk EXCEPT !.pc = "send546", !.n = i,
                              !.batch[i + 1].outputs =
                                  <<IntValue(wk.response.ResultList[i + 1].Sum)>>]
              ELSE [wk EXCEPT !.pc = "panic"]
         ELSE WaitingWorker

\* response, err := s.Client.Query(...) returns; if err != nil the worker is
\* at results <- QueryResult{raw, ..., err}, else it enters the loop over the
\* results.
AfterQuery(wk, r) ==
    IF r.err # Nil
    THEN [wk EXCEPT !.pc = "send542", !.response = r.response, !.err = r.err]
    ELSE ResultsLoop([wk EXCEPT !.response = r.response, !.err = r.err], 0)

EngineRespond(w) ==
    /\ Alive
    /\ workers[w].pc = "query"
    /\ \E outcome \in {"ok", "short", "error"} :
        /\ outcome = "ok" \/ CanFault(outcome)
        /\ LET wk == AfterQuery(workers[w], QueryOutcome(qs, workers[w].raw, outcome))
           IN  /\ workers' = [workers EXCEPT ![w] = wk]
               /\ wg' = IF wk.pc = "panic" THEN wg - 1 ELSE wg
        /\ faults' = IF outcome = "ok" THEN faults ELSE faults \cup {outcome}
    /\ UNCHANGED <<qs, concurrency, batchSize, now, timestamp, mainPC, ret, sink, res, prodPC, n,
                   qBatch, batchCount, batchesClosed, resultsClosed, closerPC, crashed,
                   setupSent, teardownSent, emitted, requests, enumVars, sweepVars>>

\* After its error record was received, the worker goes on to `range
\* response.Results()`. When the worker panics its deferred wg.Done() runs
\* as the panic unwinds it.
WorkerResults(w) ==
    /\ Alive
    /\ workers[w].pc = "range544"
    /\ LET wk == ResultsLoop(workers[w], 0)
       IN  /\ workers' = [workers EXCEPT ![w] = wk]
           /\ wg' = IF wk.pc = "panic" THEN wg - 1 ELSE wg
    /\ UNCHANGED <<qs, concurrency, batchSize, now, timestamp, mainPC, ret, sink, res, prodPC, n,
                   qBatch, batchCount, batchesClosed, resultsClosed, closerPC, crashed, setupSent,
                   teardownSent, emitted, requests, faults, enumVars, sweepVars>>

\* Nothing recovers the panic of a worker, of this run or left behind by an
\* earlier one: after its deferred calls the runtime ends the process. Until
\* then the other goroutines run on.
PanicExit ==
    /\ Alive
    /\ \/ \E w \in Workers : workers[w].pc = "panic"
       \/ \E p \in 1..Len(stale) : \E w \in Workers : stale[p].workers[w].pc = "panic"
    /\ crashed' = TRUE
    /\ UNCHANGED <<aliveVars, faults, enumVars, sweepVars>>

\* Sending with the records of a batch taken from its end.
SendingBackwards(wk) ==
    IF wk.pc = "send542" THEN ErrorRecord(wk.raw, wk.err) ELSE wk.batch[Len(wk.batch) - wk.n]

\* The record a worker blocked on a send to results is sending.
Sending(wk) ==
    IF wk.pc = "send542" THEN ErrorRecord(wk.raw, wk.err) ELSE wk.batch[wk.n + 1]

\* AfterResultSend retrying a failed batch: after the error record the worker
\* calls the engine again.
AfterResultSendRetries(wk) ==
    LET sent == [wk EXCEPT !.sent = Append(@, Sending(wk))]
    IN  IF wk.pc = "send542"
        THEN [sent EXCEPT !.pc = "query"]
        ELSE ResultsLoop(sent, wk.n + 1)

\* The worker after its send on results completed: after the error record
\* it goes on to the loop over response.Results(); after batch[n] to the next
\* result.
AfterResultSend(wk) ==
    LET sent == [wk EXCEPT !.sent = Append(@, Sending(wk))]
    IN  IF wk.pc = "send542"
        THEN [sent EXCEPT !.pc = "range544"]
        ELSE ResultsLoop(sent, wk.n + 1)

\* A worker's send on results meets the collector's `for res := range
\* results`: the channel is unbuffered, so the send and the receive are one
\* step.
ResultHandoff(w) ==
    /\ Alive
    /\ mainPC = "range"
    /\ workers[w].pc \in {"send542", "send546"}
    /\ res' = <<Sending(workers[w])>>
    /\ mainPC' = "body"
    /\ LET wk == AfterResultSend(workers[w])
       IN  /\ workers' = [workers EXCEPT ![w] = wk]
           /\ wg' = IF wk.pc = "panic" THEN wg - 1 ELSE wg
    /\ UNCHANGED <<qs, concurrency, batchSize, now, timestamp, ret, sink, prodPC, n, qBatch,
                   batchCount, batchesClosed, resultsClosed, closerPC, crashed, setupSent,
                   teardownSent, emitted, requests, faults, enumVars, sweepVars>>

\* WorkerExit without the deferred wg.Done().
WorkerExitNoDone(w) ==
    /\ Alive
    /\ NextWaiting(w)
    /\ batchesClosed
    /\ workers' = [workers EXCEPT ![w].pc = "done"]
    /\ UNCHANGED <<qs, concurrency, batchSize, now, timestamp, mainPC, ret, sink, res, prodPC, n,
                   qBatch, batchCount, batchesClosed, resultsClosed, wg, closerPC, crashed,
                   setupSent, teardownSent, emitted, requests, faults, enumVars, sweepVars>>

\* `for batch := range batches` finds the channel closed (and, being
\* unbuffered, empty): the worker returns and its deferred wg.Done() runs.
WorkerExit(w) ==
    /\ Alive
    /\ NextWaiting(w)
    /\ batchesClosed
    /\ workers' = [workers EXCEPT ![w].pc = "done"]
    /\ wg' = wg - 1
    /\ UNCHANGED <<qs, concurrency, batchSize, now, timestamp, mainPC, ret, sink, res, prodPC, n,
                   qBatch, batchCount, batchesClosed, resultsClosed, closerPC, crashed,
                   setupSent, teardownSent, emitted, requests, faults, enumVars, sweepVars>>

\* wg.Wait() returns; close(results)
CloseResults ==
    /\ Alive
    /\ closerPC = "wait"
    /\ wg = 0
    /\ resultsClosed' = TRUE
    /\ closerPC' = "done"
    /\ UNCHANGED <<qs, concurrency, batchSize, now, timestamp, mainPC, ret, sink, res, prodPC, n,
                   qBatch, batchCount, batchesClosed, workers, wg, crashed, setupSent,
                   teardownSent, emitted, requests, faults, enumVars, sweepVars>>

\* -------------------------------------------------------------- collector

\* fmt.Sprintf("%v %v\n", res.outputs[0], res.inputs)
Line(r) == <<r.outputs[1], r.inputs>>

\* What a failed f.WriteString may leave in the file: nothing, or a part of
\* the line (modelled <<>>).
TruncatedLine == <<>>

\* CollectorBody that logs an error record and goes on draining.
CollectorBodyKeepsDraining ==
    /\ Alive
    /\ mainPC = "body"
    /\ res' = <<>>
    /\ IF res[1].err # Nil
       THEN /\ mainPC' = "range"
            /\ UNCHANGED <<ret, sink, faults>>
       ELSE \E written \in {"all", "none", "part"} :
               /\ written = "all" \/ CanFault("write")
               /\ sink' = CASE written = "all"  -> Append(sink, Line(res[1]))
                            [] written = "none" -> sink
                            [] written = "part" -> Append(sink, TruncatedLine)
               /\ mainPC' = IF written = "all" THEN "range" ELSE "teardown"
               /\ faults' = IF written = "all" THEN faults ELSE faults \cup {"write"}
               /\ UNCHANGED ret
    /\ UNCHANGED <<qs, concurrency, batchSize, now, timestamp, prodPC, n, qBatch, batchCount,
                   batchesClosed, resultsClosed, workers, wg, closerPC, crashed, setupSent,
                   teardownSent, emitted, requests, enumVars, sweepVars>>

\* CollectorBody without the `break` after a failed f.WriteString.
CollectorBodyIgnoresWriteError ==
    /\ Alive
    /\ mainPC = "body"
    /\ res' = <<>>
    /\ IF res[1].err # Nil
       THEN /\ ReturnFailed
            /\ UNCHANGED <<sink, faults>>
       ELSE \E written \in {"all", "none", "part"} :
               /\ written = "all" \/ CanFault("write")
               /\ sink' = CASE written = "all"  -> Append(sink, Line(res[1]))
                            [] written = "none" -> sink
                            [] written = "part" -> Append(sink, TruncatedLine)
               /\ mainPC' = "range"
               /\ faults' = IF written = "all" THEN faults ELSE faults \cup {"write"}
               /\ UNCHANGED ret
    /\ UNCHANGED <<qs, concurrency, batchSize, now, timestamp, prodPC, n, qBatch, batchCount,
                   batchesClosed, resultsClosed, workers, wg, closerPC, crashed, setupSent,
                   teardownSent, emitted, requests, enumVars, sweepVars>>

\* The body of the collector loop for the record it received: an error
\* record ends the run with the failed result; otherwise the line is written
\* and the loop goes on, or the write fails and the loop is left.
CollectorBody ==
    /\ Alive
    /\ mainPC = "body"
    /\ res' = <<>>
    /\ IF res[1].err # Nil
       THEN /\ ReturnFailed
            /\ UNCHANGED <<sink, faults>>
       ELSE \E written \in {"all", "none", "part"} :
               /\ written = "all" \/ CanFault("write")
               /\ sink' = CASE written = "all"  -> Append(sink, Line(res[1]))
                            [] written = "none" -> sink
                            [] written = "part" -> Append(sink, TruncatedLine)
               /\ mainPC' = IF written = "all" THEN "range" ELSE "teardown"
               /\ faults' = IF written = "all" THEN faults ELSE faults \cup {"write"}
               /\ UNCHANGED ret
    /\ UNCHANGED <<qs, concurrency, batchSize, now, timestamp, prodPC, n, qBatch, batchCount,
                   batchesClosed, resultsClosed, workers, wg, closerPC, crashed, setupSent,
                   teardownSent, emitted, requests, enumVars, sweepVars>>

\* `for res := range results` finds the channel closed: the loop is over.
CollectorClosed ==
    /\ Alive
    /\ mainPC = "range"
    /\ resultsClosed
    /\ mainPC' = "teardown"
    /\ UNCHANGED <<qs, concurrency, batchSize, now, timestamp, ret, sink, res, prodPC, n, qBatch,
                   batchCount, batchesClosed, resultsClosed, workers, wg, closerPC, crashed,
                   setupSent, teardownSent, emitted, requests, faults, enumVars, sweepVars>>

\* if qs.teardown != "" { s.Client.Query(s.Index.RawQuery(qs.teardown), nil) ...:
\* the request is sent; without a teardown query the run returns its summary.
RunTeardown ==
    /\ Alive
    /\ mainPC = "teardown"
    /\ IF qs.teardown # ""
       THEN /\ teardownSent' = teardownSent + 1
            /\ mainPC' = "teardownQuery"
            /\ UNCHANGED ret
       ELSE /\ ReturnSummary
            /\ UNCHANGED teardownSent
    /\ UNCHANGED <<qs, concurrency, batchSize, now, timestamp, sink, res, prodPC, n, qBatch,
                   batchCount, batchesClosed, resultsClosed, workers, wg, closerPC, crashed,
                   setupSent, emitted, requests, faults, enumVars, sweepVars>>

\* The teardown query returns: if err != nil { return BenchmarkResult{... -1 ...} },
\* else the run returns its summary.
TeardownResponse ==
    /\ Alive
    /\ mainPC = "teardownQuery"
    /\ \E ok \in BOOLEAN :
        /\ ok \/ CanFault("teardown")
        /\ IF ok
           THEN /\ ReturnSummary
                /\ UNCHANGED faults
           ELSE /\ ReturnFailed
                /\ faults' = faults \cup {"teardown"}
    /\ UNCHANGED <<qs, concurrency, batchSize, now, timestamp, sink, res, prodPC, n, qBatch,
                   batchCount, batchesClosed, resultsClosed, workers, wg, closerPC, crashed,
                   setupSent, teardownSent, emitted, requests, enumVars, sweepVars>>

\* ---------------------------------------------------------- specification

Next ==
    \/ CreateResultsFile
    \/ RunSetup
    \/ SetupResponse
    \/ StartWorkers
    \/ \E w \in Workers : BatchHandoff(w)
    \/ ProducerClose
    \/ \E w \in Workers : EngineRespond(w)
    \/ \E w \in Workers : WorkerResults(w)
    \/ PanicExit
    \/ \E w \in Workers : ResultHandoff(w)
    \/ \E w \in Workers : WorkerExit(w)
    \/ CloseResults
    \/ CollectorBody
    \/ CollectorClosed
    \/ RunTeardown
    \/ TeardownResponse

Spec == Init /\ [][Next]_vars

\* The Go scheduler runs every goroutine that can take a step, and the engine
\* answers every request: RunSumMultiBatch itself, the producer, each worker at
\* each of its steps, and the closing goroutine are treated fairly, and the
\* runtime ends the process of a goroutine that panicked.
RunSteps ==
    \/ CreateResultsFile
    \/ RunSetup
    \/ SetupResponse
    \/ StartWorkers
    \/ CollectorBody
    \/ CollectorClosed
    \/ RunTeardown
    \/ TeardownResponse

Fairness ==
    /\ WF_vars(RunSteps)
    /\ WF_vars(ProducerClose)
    /\ WF_vars(CloseResults)
    /\ WF_vars(PanicExit)
    /\ \A w \in Workers :
        /\ WF_vars(BatchHandoff(w))
        /\ WF_vars(EngineRespond(w))
        /\ WF_vars(WorkerResults(w))
        /\ WF_vars(ResultHandoff(w))
        /\ WF_vars(WorkerExit(w))

FairSpec == Init /\ [][Next]_vars /\ Fairness

\* ------------------------------------------------- enumerating a QuerySet

\* The QuerySets that are enumerated: NewQuerySet on grids of at most MaxDim
\* dimensions of at most MaxCard values each (an empty grid included).
EnumQuerySets ==
    {NewQuerySet("q", Len(dim), ArgSetsOf(dim)) : dim \in Shapes(MaxDim, 0, MaxCard)}

EnumInit ==
    /\ RunInit(ZeroQuerySet, 1, 1)
    /\ uQS \in EnumQuerySets
    /\ uN = 0
    /\ uOut = <<>>
    /\ SweepIdle

\* for n := 0; n < qs.iterations; n++: the calls made for iteration index n.
Enumerate ==
    /\ uN < uQS.iterations
    /\ uOut' = Append(uOut, [indexN |-> UnravelIndex(uN, uQS.lengths),
                             query  |-> QueryN(uQS, uN),
                             result |-> QueryResultN(uQS, uN)])
    /\ uN' = uN + 1
    /\ UNCHANGED <<uQS, runVars, sweepVars>>

EnumNext == Enumerate

EnumSpec == EnumInit /\ [][EnumNext]_vars

\* The QuerySets NewQuerySet builds from a template of any number of verbs
\* and a grid of any number of dimensions.
TemplateQuerySets ==
    {NewQuerySet("q", verbs, ArgSetsOf(dim)) :
        verbs \in 0..MaxDim, dim \in Shapes(MaxDim, 0, MaxCard)}

TemplateInit ==
    /\ RunInit(ZeroQuerySet, 1, 1)
    /\ uQS \in TemplateQuerySets
    /\ uN = 0
    /\ uOut = <<>>
    /\ SweepIdle

TemplateSpec == TemplateInit /\ [][EnumNext]_vars

\* ------------------------------------------------- HandleQuery: the sweep

\* HandleQuery's concurrency := []int{8, 16, 32} and batchSize := []int{2, 4, 8},
\* scaled down to the pool and batch sizes that are run here.
SweepConcurrency == <<1, 2>>
SweepBatchSize == <<1, 2>>

\* How many times the body of the two nested loops runs.
PassCount == Len(SweepConcurrency) * Len(SweepBatchSize)

\* The loops nested the other way round: the concurrency changes on every
\* pass.
PassConcurrencyInner(k) == SweepConcurrency[((k - 1) % Len(SweepConcurrency)) + 1]

\* for _, c := range concurrency { for _, b := range batchSize { ... } }: the
\* c and the b of the k-th pass, counted from 1.
PassConcurrency(k) == SweepConcurrency[((k - 1) \div Len(SweepBatchSize)) + 1]

PassBatchSize(k) == SweepBatchSize[((k - 1) % Len(SweepBatchSize)) + 1]

\* fmt.Sprintf("results/%v-%v.txt", qs.Name, timestamp): the path is made of
\* the name and of the time in whole seconds, and of nothing else.
Path(name, ts) == <<name, ts>>

\* Whether a goroutine of the run that returned has not finished: nothing
\* stops the producer, the workers or the closing goroutine when
\* RunSumMultiBatch returns.
LeavesBehind ==
    \/ prodPC \notin {"idle", "done"}
    \/ closerPC = "wait"
    \/ \E w \in Workers : workers[w].pc \notin {"idle", "done"}

\* A worker of a run that returned. Nothing receives from the results channel
\* of that run any more: a worker at a send on it stays there for good, and
\* what its variables hold is dead.
StaleWorker(wk) ==
    IF wk.pc \in {"send542", "send546"}
    THEN [IdleWorker EXCEPT !.pc = wk.pc]
    ELSE [wk EXCEPT !.sent = <<>>]

\* The goroutines of the run that returned, with the channels and the
\* WaitGroup they share.
LeftBehind ==
    [prodPC |-> prodPC, n |-> n, qBatch |-> qBatch, batchCount |-> batchCount,
     batchSize |-> batchSize, batchesClosed |-> batchesClosed,
     workers |-> [w \in Workers |-> StaleWorker(workers[w])],
     wg |-> wg, closerPC |-> closerPC, resultsClosed |-> resultsClosed]

\* HandleQuery with qtype = "grid" calls RunSumMultiBatch for the first pair.
SweepInit ==
    /\ \E s \in RunQuerySets : RunInit(s, PassConcurrency(1), PassBatchSize(1))
    /\ EnumIdle
    /\ pass = 1
    /\ hqResults = <<>>
    /\ stale = <<>>
    /\ created = <<>>

\* results = append(results, s.RunSumMultiBatch(qs, c, b)) and the next turn of
\* the loops: the summary of the pass that returned is appended and
\* RunSumMultiBatch is called for the next pair. The clock is read again in
\* the same second as before, or in a later one. A pass in which the
\* environment injected a fault counts as one more kind of fault for the rest
\* of the sweep.
SweepNextPass ==
    /\ Alive
    /\ pass \in 1..(PassCount - 1)
    /\ mainPC = "returned"
    /\ hqResults' = Append(hqResults, ret[1])
    /\ pass' = pass + 1
    /\ stale' = IF LeavesBehind THEN Append(stale, LeftBehind) ELSE stale
    /\ created' = IF prodPC # "idle" THEN Append(created, Path(qs.Name, timestamp))
                                      ELSE created
    /\ now' \in {now, now + 1}
    /\ concurrency' = PassConcurrency(pass + 1)
    /\ batchSize' = PassBatchSize(pass + 1)
    /\ timestamp' = 0
    /\ mainPC' = "create"
    /\ ret' = <<>>
    /\ sink' = <<>>
    /\ res' = <<>>
    /\ prodPC' = "idle"
    /\ n' = 0
    /\ qBatch' = <<>>
    /\ batchCount' = 0
    /\ batchesClosed' = FALSE
    /\ resultsClosed' = FALSE
    /\ workers' = [w \in Workers |-> IdleWorker]
    /\ wg' = 0
    /\ closerPC' = "idle"
    /\ setupSent' = 0
    /\ teardownSent' = 0
    /\ emitted' = <<>>
    /\ requests' = <<>>
    /\ faults' = IF faults = {} THEN faults ELSE faults \cup {"earlier pass"}
    /\ UNCHANGED <<qs, crashed, enumVars>>

\* The last pass returned: its summary is appended and enc.Encode(results)
\* answers the request.
SweepEncode ==
    /\ Alive
    /\ pass = PassCount
    /\ mainPC = "returned"
    /\ hqResults' = Append(hqResults, ret[1])
    /\ pass' = pass + 1
    /\ created' = IF prodPC # "idle" THEN Append(created, Path(qs.Name, timestamp))
                                      ELSE created
    /\ UNCHANGED <<runVars, enumVars, stale>>

\* The least-numbered worker left behind by pass record o that waits in
\* `range batches`.
StaleNextWaiting(o, w) ==
    /\ o.workers[w].pc = "range"
    /\ \A v \in Workers : v < w => o.workers[v].pc # "range"

\* BatchHandoff among the goroutines a pass left behind: its producer goes on
\* sending and its workers go on receiving and querying the engine.
StaleBatchHandoff(p, w) ==
    /\ Alive
    /\ p \in 1..Len(stale)
    /\ stale[p].prodPC \in {"send452", "send458"}
    /\ StaleNextWaiting(stale[p], w)
    /\ LET o  == stale[p]
           pr == AfterSend(qs, o.batchSize, o.prodPC, o.n, o.qBatch, o.batchCount)
           wk == WorkerQuery(o.workers[w], o.qBatch)
       IN  stale' = [stale EXCEPT ![p] =
                        [o EXCEPT !.prodPC = pr.pc, !.n = pr.n, !.qBatch = pr.qBatch,
                                  !.batchCount = pr.batchCount, !.workers[w] = wk]]
    /\ UNCHANGED <<runVars, enumVars, pass, hqResults, created>>

\* ProducerClose of a producer left behind.
StaleProducerClose(p) ==
    /\ Alive
    /\ p \in 1..Len(stale)
    /\ stale[p].prodPC = "close"
    /\ stale' = [stale EXCEPT ![p].prodPC = "done", ![p].batchesClosed = TRUE]
    /\ UNCHANGED <<runVars, enumVars, pass, hqResults, created>>

\* EngineRespond for a worker left behind. Nothing receives from the results
\* channel of its run any more, so at its next send it stays.
StaleEngineRespond(p, w) ==
    /\ Alive
    /\ p \in 1..Len(stale)
    /\ stale[p].workers[w].pc = "query"
    /\ \E outcome \in {"ok", "short", "error"} :
        /\ outcome = "ok" \/ CanFault(outcome)
        /\ LET wk == StaleWorker(AfterQuery(stale[p].workers[w],
                                   QueryOutcome(qs, stale[p].workers[w].raw, outcome)))
           IN  stale' = [stale EXCEPT ![p].workers[w] = wk,
                                      ![p].wg = IF wk.pc = "panic" THEN @ - 1 ELSE @]
        /\ faults' = IF outcome = "ok" THEN faults ELSE faults \cup {outcome}
    /\ UNCHANGED <<aliveVars, crashed, enumVars, pass, hqResults, created>>

\* WorkerResults for a worker left behind: the worker whose error record
\* ended its run goes on to `range response.Results()`.
StaleWorkerResults(p, w) ==
    /\ Alive
    /\ p \in 1..Len(stale)
    /\ stale[p].workers[w].pc = "range544"
    /\ LET wk == ResultsLoop(stale[p].workers[w], 0)
       IN  stale' = [stale EXCEPT ![p].workers[w] = wk,
                                  ![p].wg = IF wk.pc = "panic" THEN @ - 1 ELSE @]
    /\ UNCHANGED <<runVars, enumVars, pass, hqResults, created>>

\* WorkerExit for a worker left behind.
StaleWorkerExit(p, w) ==
    /\ Alive
    /\ p \in 1..Len(stale)
    /\ StaleNextWaiting(stale[p], w)
    /\ stale[p].batchesClosed
    /\ stale' = [stale EXCEPT ![p].workers[w].pc = "done", ![p].wg = @ - 1]
    /\ UNCHANGED <<runVars, enumVars, pass, hqResults, created>>

\* CloseResults for the closing goroutine left behind.
StaleCloseResults(p) ==
    /\ Alive
    /\ p \in 1..Len(stale)
    /\ stale[p].closerPC = "wait"
    /\ stale[p].wg = 0
    /\ stale' = [stale EXCEPT ![p].closerPC = "done", ![p].resultsClosed = TRUE]
    /\ UNCHANGED <<runVars, enumVars, pass, hqResults, created>>

SweepNext ==
    \/ Next
    \/ SweepNextPass
    \/ SweepEncode
    \/ \E p \in 1..PassCount, w \in Workers : StaleBatchHandoff(p, w)
    \/ \E p \in 1..PassCount : StaleProducerClose(p)
    \/ \E p \in 1..PassCount, w \in Workers : StaleEngineRespond(p, w)
    \/ \E p \in 1..PassCount, w \in Workers : StaleWorkerResults(p, w)
    \/ \E p \in 1..PassCount, w \in Workers : StaleWorkerExit(p, w)
    \/ \E p \in 1..PassCount : StaleCloseResults(p)

SweepSpec == SweepInit /\ [][SweepNext]_vars

\* ----------------------------------------------------------------- claims

\* The concatenation of a sequence of sequences.
RECURSIVE Flatten(_)
Flatten(ss) == IF Len(ss) = 0 THEN <<>> ELSE ss[1] \o Flatten(Tail(ss))

\* How often x occurs in the sequence xs.
Count(xs, x) == Cardinality({j \in 1..Len(xs) : xs[j] = x})

\* The iteration indices of the QuerySet that is run.
Indices == 0..(qs.iterations - 1)

\* The line the collector writes for iteration index i when the engine echoes
\* the index.
EchoLine(i) == <<IntValue(i), Args(qs, i)>>

Returned == mainPC = "returned"

\* No fault was injected: the results file was created, setup and teardown
\* succeeded, the engine answered every compound request with one result per
\* query, every write succeeded.
Clean == faults = {}

\* C1: a clean run that returned has materialized every iteration index once,
\* has sent each to the engine in exactly one compound request and has written
\* each to the sink exactly once, so the sink holds size() lines; the summary
\* carries Iterations = size(), Concurrency = c and BatchSize = b.
C1_CleanRunComplete ==
    (Returned /\ Clean) =>
        /\ Len(Flatten(emitted)) = qs.iterations
        /\ \A i \in Indices :
            /\ Count(Flatten(emitted), QueryResultN(qs, i)) = 1
            /\ Count(Flatten(requests), QueryN(qs, i)[1]) = 1
            /\ Count(sink, EchoLine(i)) = 1
        /\ Len(Flatten(requests)) = qs.iterations
        /\ Len(sink) = qs.iterations
        /\ ret[1].Iterations = qs.iterations
        /\ ret[1].Concurrency = concurrency
        /\ ret[1].BatchSize = batchSize
        /\ ret[1].Seconds >= 0

\* A clean run of two workers and several batches, the last one shorter, has
\* returned.
C1_Witness ==
    /\ Returned /\ Clean
    /\ concurrency = 2 /\ batchSize = 2 /\ qs.iterations = 3
    /\ Len(sink) = 3
    /\ qs.setup # ""

\* C2: the batches the producer emitted, concatenated in emission order, are
\* the records of the indices 0, 1, ... in order, each once; every batch has b
\* records except possibly the last, which is not empty and is shorter only
\* when size() is no multiple of b; and once the queue is closed all of
\* [0, size()) has been emitted.
C2_BatchPartition ==
    LET flat == Flatten(emitted)
        done == Len(flat) = qs.iterations
    IN  /\ Len(flat) <= qs.iterations
        /\ \A j \in 1..Len(flat) : flat[j] = QueryResultN(qs, j - 1)
        /\ \A m \in 1..Len(emitted) :
            /\ Len(emitted[m]) >= 1
            /\ Len(emitted[m]) <= batchSize
            /\ Len(emitted[m]) < batchSize =>
                 /\ m = Len(emitted)
                 /\ done
                 /\ qs.iterations % batchSize # 0
        /\ batchesClosed => done
        /\ batchesClosed <=> prodPC = "done"
        /\ prodPC \in {"close", "done"} => done

\* The producer closed the queue after several batches, the last one shorter.
C2_Witness ==
    /\ batchesClosed
    /\ Len(emitted) >= 2
    /\ Len(emitted[Len(emitted)]) < batchSize
    /\ Len(emitted[1]) = batchSize

\* The complete lines of the sink.
Lines == {sink[j] : j \in {k \in 1..Len(sink) : sink[k] # TruncatedLine}}

\* C3: with the echoing engine every line written carries the output the
\* engine returned for the line's own input, and the set of lines of a clean
\* run that returned is the set of (index, tuple of the index) over
\* [0, size()): it depends on the QuerySet alone, not on the number of workers
\* or on the interleaving.
C3_SameContentAnyConcurrency ==
    /\ \A line \in Lines : \E i \in Indices : line = EchoLine(i)
    /\ (Returned /\ Clean) => Lines = {EchoLine(i) : i \in Indices}

\* A clean run of two workers has returned with its lines out of index order.
C3_Witness ==
    /\ Returned /\ Clean
    /\ concurrency = 2
    /\ \E j, k \in 1..Len(sink) : j < k /\ sink[j][1][1] > sink[k][1][1]

\* C4 (as claimed): a run in which the engine returned N-1 results for a
\* compound request of N queries returns the failed result.
C4_ShortResponseFailsRun ==
    (Returned /\ "short" \in faults) => ret[1].Seconds = -1

\* C7: once the collector loop holds a record carrying an error, the next step
\* of the run is its return of the failed result, with Seconds = -1 and the
\* sink as it was; and a run that returned receives no record and writes no
\* line any more.
C7_ErrorRecordAborts ==
    [][/\ (mainPC = "body" /\ res[1].err # Nil) =>
            \/ mainPC' = "body" /\ res' = res /\ sink' = sink /\ ret' = ret
            \/ /\ mainPC' = "returned"
               /\ ret' = <<FailedResult(timestamp)>>
               /\ ret'[1].Seconds = -1
               /\ sink' = sink
       /\ Returned => (mainPC' = "returned" /\ ret' = ret /\ sink' = sink /\ res' = res)
      ]_vars

\* A run returned the failed result on an error record after it had written
\* lines.
C7_Witness ==
    /\ Returned
    /\ faults = {"error"}
    /\ ret[1].Seconds = -1
    /\ Len(sink) >= 1

\* C8 (as claimed): a returned summary whose Seconds is not the sentinel is
\* complete, all size() records are in the sink.
C8_NoSilentPartialResult ==
    (Returned /\ ret[1].Seconds # -1) =>
        /\ Len(sink) = qs.iterations
        /\ \A i \in Indices : Count(sink, EchoLine(i)) = 1

\* C9: after a failed setup query the run has returned the failed result, no
\* worker and no closing goroutine was started, no batch was received from the
\* queue, no compound request was sent and nothing was written.
C9_SetupFailureAborts ==
    "setup" \in faults =>
        /\ Returned
        /\ ret = <<FailedResult(timestamp)>>
        /\ ret[1].Seconds = -1
        /\ \A w \in Workers : workers[w] = IdleWorker
        /\ wg = 0
        /\ closerPC = "idle"
        /\ emitted = <<>>
        /\ requests = <<>>
        /\ sink = <<>>
        /\ setupSent = 1

\* The setup query failed while the producer waits with a batch to send.
C9_Witness ==
    /\ "setup" \in faults
    /\ prodPC \in {"send452", "send458"}
    /\ Len(qBatch) = 2
    /\ Returned

\* The compound requests sent so far that hold a query of the batch.
RequestsOf(batch) ==
    {j \in 1..Len(requests) :
        \E q \in 1..Len(batch), k \in 1..Len(requests[j]) : requests[j][k] = batch[q].raw[1]}

\* C10: a worker whose engine call failed stays with that batch: until its
\* error record is received it has emitted nothing for the batch, afterwards
\* exactly the one record holding the batch's concatenated text and the
\* error; it emits no result record, and the batch was sent to the engine
\* once.
C10_ErrorRecordNoRetry ==
    /\ "error" \in faults => \E w \in Workers : workers[w].err # Nil
    /\ \A w \in Workers :
        LET wk == workers[w]
            rec == [raw |-> RawOf(wk.batch), inputs |-> <<>>, outputs |-> <<>>, err |-> Err]
        IN  wk.err # Nil =>
                /\ wk.pc \in {"send542", "range544", "panic"}
                /\ wk.pc = "send542" => (wk.sent = <<>> /\ Sending(wk) = rec)
                /\ wk.pc # "send542" => wk.sent = <<rec>>
                /\ Cardinality(RequestsOf(wk.batch)) = 1
                /\ Count(requests, RawOf(wk.batch)) = 1

\* The error record of a batch of two queries was received.
C10_Witness ==
    \E w \in Workers :
        /\ workers[w].err # Nil
        /\ workers[w].pc = "range544"
        /\ Len(workers[w].batch) = 2
        /\ Len(workers[w].sent) = 1

\* The product of the first k cardinalities of dim.
RECURSIVE PrefixProduct(_, _)
PrefixProduct(dim, k) == IF k = 0 THEN 1 ELSE dim[k] * PrefixProduct(dim, k - 1)

\* The Cartesian product of the [0, dim[k]).
Cartesian(dim) ==
    {p \in [1..Len(dim) -> 0..MaxCard] : \A k \in 1..Len(dim) : p[k] < dim[k]}

\* C5: for the index i, UnravelIndex returned idx with
\* idx[k] = (i / product of dim[j], j < k) mod dim[k] and 0 <= idx[k] < dim[k];
\* encoding idx by the strides gives back i; no two indices have the same idx,
\* and over [0, product of dim) the idx are all of the Cartesian product.
C5_UnravelBijection ==
    LET dim == uQS.lengths
    IN  /\ \A m \in 1..Len(uOut) :
            LET idx == uOut[m].indexN
            IN  /\ DOMAIN idx = 1..Len(dim)
                /\ \A k \in 1..Len(dim) :
                    /\ idx[k] = ((m - 1) \div PrefixProduct(dim, k - 1)) % dim[k]
                    /\ 0 <= idx[k]
                    /\ idx[k] < dim[k]
                /\ Ravel(idx, dim) = m - 1
        /\ Cardinality({uOut[m].indexN : m \in 1..Len(uOut)}) = Len(uOut)
        /\ uN = PrefixProduct(dim, Len(dim)) =>
             {uOut[m].indexN : m \in 1..Len(uOut)} = Cartesian(dim)

\* All indices of a grid of three dimensions of different cardinalities were
\* unravelled.
C5_Witness ==
    /\ uQS.lengths = <<2, 3, 2>>
    /\ uN = 12
    /\ Len(uOut) = 12

\* The tuple of the values at the positions p of the grid of s.
ValuesAt(s, p) == [k \in 1..Len(s.ArgSets) |-> s.ArgSets[k][p[k] + 1]]

\* C6: the iteration count is the product of the cardinalities of the grid;
\* QueryN and QueryResultN of n take, in dimension k, the value
\* ArgSets[k][idx[k]] of the unravelled n, in the order of the dimensions; no
\* combination is selected twice, and over [0, size()) every combination of the
\* Cartesian product is selected.
C6_QuerySetEnumeratesProduct ==
    LET dim == [k \in 1..Len(uQS.ArgSets) |-> Len(uQS.ArgSets[k])]
        selected == {uOut[m].result.inputs : m \in 1..Len(uOut)}
    IN  /\ uQS.iterations = PrefixProduct(dim, Len(dim))
        /\ uN <= uQS.iterations
        /\ \A m \in 1..Len(uOut) :
            LET e == uOut[m]
            IN  /\ e.result.inputs = ValuesAt(uQS, e.indexN)
                /\ e.result.raw = e.query
                /\ Len(e.query) = 1
                /\ e.query[1].text = [k \in 1..Len(dim) |-> <<e.result.inputs[k]>>]
                /\ e.query[1].extra = <<>>
        /\ Cardinality(selected) = Len(uOut)
        /\ uN = uQS.iterations => selected = {ValuesAt(uQS, p) : p \in Cartesian(dim)}

\* A grid of two dimensions of different cardinalities was enumerated.
C6_Witness ==
    /\ uQS.lengths = <<3, 2>>
    /\ uN = 6
    /\ Len(uOut) = 6

\* C11 (as claimed): a run whose teardown query failed returns a summary that
\* still carries the iteration count of the run and its elapsed seconds.
C11_TeardownFailureKeepsResults ==
    (Returned /\ "teardown" \in faults) =>
        /\ ret[1].Iterations = qs.iterations
        /\ ret[1].Seconds >= 0

\* Whether the sequence s is the sequence t or t without its last element.
IsPrefixByOne(s, t) ==
    /\ Len(s) <= Len(t)
    /\ Len(t) <= Len(s) + 1
    /\ \A j \in 1..Len(s) : s[j] = t[j]

\* C12: the step in which a write to the results file fails leaves the lines
\* written before in place and takes the collector out of its loop; from then
\* on no record is received and the file does not change.
C12_WriteFailureStopsDraining ==
    [][/\ ("write" \notin faults /\ "write" \in faults') =>
            /\ IsPrefixByOne(sink, sink')
            /\ mainPC' = "teardown"
            /\ res' = <<>>
       /\ "write" \in faults =>
            /\ sink' = sink
            /\ res' = <<>>
            /\ mainPC' \notin {"range", "body"}]_vars

\* A line was written, a later write failed and the run returned while a
\* worker still holds a result to send.
C12_Witness ==
    /\ "write" \in faults
    /\ Returned
    /\ Len(sink) >= 1
    /\ sink[1] # TruncatedLine
    /\ \E w \in Workers : workers[w].pc = "send546"

\* The pair of the k-th pass of a sweep that takes the concurrency values in
\* its outer loop and the batch sizes in its inner loop.
PairOf(k) ==
    [c |-> SweepConcurrency[((k - 1) \div Len(SweepBatchSize)) + 1],
     b |-> SweepBatchSize[((k - 1) % Len(SweepBatchSize)) + 1]]

\* C13 (as claimed): the summaries of a sweep are one per pair, in the order
\* of the loops, each with the concurrency and the batch size of its pair and
\* all with the same iteration count.
C13_SweepSummariesCarryPairs ==
    /\ Len(hqResults) <= PassCount
    /\ pass = PassCount + 1 => Len(hqResults) = PassCount
    /\ \A k \in 1..Len(hqResults) :
        /\ hqResults[k].Concurrency = PairOf(k).c
        /\ hqResults[k].BatchSize = PairOf(k).b
        /\ hqResults[k].Iterations = hqResults[1].Iterations

\* C13: a sweep runs RunSumMultiBatch for one pair at a time, in the order of
\* the loops (concurrency outside, batch size inside), and has one summary for
\* each pass that returned, PassCount of them when it answers; the summary of
\* a pass that did not fail carries the concurrency and the batch size of its
\* pair and the iteration count of the QuerySet, the summary of a failed pass
\* is the failed result: Seconds -1 and 0 for the three.
C13_SweepSummariesInOrder ==
    /\ pass \in 1..(PassCount + 1)
    /\ Len(hqResults) = pass - 1
    /\ pass <= PassCount => concurrency = PairOf(pass).c /\ batchSize = PairOf(pass).b
    /\ \A k \in 1..Len(hqResults) :
        IF hqResults[k].Seconds = -1
        THEN /\ hqResults[k].Concurrency = 0
             /\ hqResults[k].BatchSize = 0
             /\ hqResults[k].Iterations = 0
        ELSE /\ hqResults[k].Seconds >= 0
             /\ hqResults[k].Concurrency = PairOf(k).c
             /\ hqResults[k].BatchSize = PairOf(k).b
             /\ hqResults[k].Iterations = qs.iterations

\* A sweep answered with the summaries of a failed pass and of passes that
\* did not fail.
C13_Witness ==
    /\ pass = PassCount + 1
    /\ Len(hqResults) = PassCount
    /\ qs.iterations > 1
    /\ \E k \in 1..Len(hqResults) : hqResults[k].Seconds = -1
    /\ hqResults[PassCount].Seconds >= 0
    /\ hqResults[PassCount].Concurrency # hqResults[PassCount - 1].Concurrency
       \/ hqResults[PassCount].BatchSize # hqResults[PassCount - 1].BatchSize

\* C14 (as claimed): no worker that a pass left behind when it returned has a
\* request at the engine while a later pass runs.
C14_PassesDoNotOverlap ==
    \A p \in 1..Len(stale), w \in Workers : stale[p].workers[w].pc # "query"

\* C16 (as claimed): no two passes of a sweep created the same results file.
C16_OneFilePerRun ==
    \A i, j \in 1..Len(created) : i # j => created[i] # created[j]

\* The input tuples of the records of a batch.
InputsOf(batch) == {batch[j].inputs : j \in 1..Len(batch)}

\* The workers that hold the k-th batch the producer sent.
Holders(k) ==
    {w \in Workers : workers[w].batch # <<>> /\ InputsOf(workers[w].batch) = InputsOf(emitted[k])}

\* Whether the record with the input tuple x went to the collector.
Collected(x) ==
    \/ res # <<>> /\ res[1].inputs = x
    \/ \E j \in 1..Len(sink) : sink[j] # TruncatedLine /\ sink[j][2] = x

\* C15: no record is in the batches of two workers; every batch that was sent
\* is held by at most one worker, which has its request at the engine or is
\* emitting its records; and as long as no fault occurred, a batch no worker
\* holds has all its records at the collector.
C15_BatchOwnedByOneWorker ==
    /\ \A v, w \in Workers :
        v # w => InputsOf(workers[v].batch) \cap InputsOf(workers[w].batch) = {}
    /\ \A w \in Workers :
        workers[w].batch # <<>> =>
            /\ workers[w].pc \in {"query", "send542", "range544", "send546", "panic"}
            /\ \E k \in 1..Len(emitted) : w \in Holders(k)
    /\ \A k \in 1..Len(emitted) :
        /\ Cardinality(Holders(k)) <= 1
        /\ (Clean /\ Holders(k) = {}) => \A x \in InputsOf(emitted[k]) : Collected(x)

\* Two workers hold a batch each at the same time.
C15_Witness ==
    /\ Len(emitted) >= 2
    /\ \E v, w \in Workers :
        /\ v # w
        /\ workers[v].batch # <<>>
        /\ workers[w].batch # <<>>
        /\ workers[v].pc = "send546"
        /\ workers[w].pc = "query"

\* C17 (as claimed): no QuerySet whose template has another number of verbs
\* than its grid has dimensions is rendered by QueryN or QueryResultN.
C17_MismatchNeverRendered ==
    uOut # <<>> => uQS.Format = Len(uQS.ArgSets)

\* C18: the run of the zero QuerySet of an unknown name does not crash, sends
\* no batch and no request (setup and teardown included), writes nothing, and
\* returns a result with Iterations = 0; unless the results file could not be
\* created that result is the summary, and by then the batches channel was
\* closed, every worker has exited and the results channel was closed.
C18_UnknownNameTolerated ==
    qs = ZeroQuerySet =>
        /\ ~crashed
        /\ emitted = <<>>
        /\ requests = <<>>
        /\ setupSent = 0
        /\ teardownSent = 0
        /\ sink = <<>>
        /\ prodPC \in {"idle", "close", "done"}
        /\ \A w \in Workers : workers[w].pc \in {"idle", "range", "done"}
        /\ Returned =>
            /\ ret[1].Iterations = 0
            /\ "create" \notin faults =>
                /\ ret[1].Seconds >= 0
                /\ ret[1].Concurrency = concurrency
                /\ ret[1].BatchSize = batchSize
                /\ batchesClosed
                /\ resultsClosed
                /\ \A w \in 1..concurrency : workers[w].pc = "done"

\* The run of the zero QuerySet with two workers returned its summary.
C18_Witness ==
    /\ qs = ZeroQuerySet
    /\ Returned
    /\ faults = {}
    /\ concurrency >= 2
    /\ ret[1].Seconds >= 0

\* C19 (as claimed): a worker has come to its end only when the batches
\* channel was closed by a producer that sent all it had; the results channel
\* is closed only when all c workers have come to their end; so when the
\* results channel is closed no worker is at a send on it, none has a request
\* at the engine and no batch waits to be sent.
C19_ResultsClosedAfterWorkers ==
    /\ \A w \in Workers :
        workers[w].pc \in {"done", "panic"} => batchesClosed /\ prodPC = "done"
    /\ batchesClosed => prodPC = "done" /\ n = qs.iterations
    /\ resultsClosed =>
        /\ wg = 0
        /\ \A w \in 1..concurrency : workers[w].pc \in {"done", "panic"}
        /\ prodPC = "done"
        /\ Len(Flatten(emitted)) = qs.iterations

\* No fault made the run leave its path: a short answer of the engine is
\* still an answer.
NoAbort == faults \subseteq {"short"}

\* C20: under fair scheduling a run in which nothing fails returns, and from
\* then on the producer is done, every worker has exited, the results channel
\* is closed and the collector holds no record.
C20_CleanRunReturns ==
    <>[](\/ ~NoAbort
         \/ /\ Returned
            /\ ~crashed
            /\ prodPC = "done"
            /\ batchesClosed
            /\ resultsClosed
            /\ closerPC = "done"
            /\ res = <<>>
            /\ \A w \in 1..concurrency : workers[w].pc = "done")

\* A run of two workers and three batches returned with no fault.
C20_Witness ==
    /\ Returned
    /\ faults = {}
    /\ concurrency >= 2
    /\ Len(emitted) >= 3
    /\ \A w \in 1..concurrency : workers[w].pc = "done"

\* C21 (as claimed): under fair scheduling, once RunSumMultiBatch has returned
\* its producer and its workers all come to their end (or the process is
\* gone): none stays at a send.
C21_TasksEndAfterReturn ==
    Returned ~> (\/ crashed
                 \/ /\ prodPC \in {"idle", "done"}
                    /\ \A w \in Workers : workers[w].pc \in {"idle", "done"})

\* Whether some worker or the closing goroutine was started.
PoolStarted ==
    \/ closerPC # "idle"
    \/ \E w \in Workers : workers[w].pc # "idle"

\* C22: the setup query is sent at most once, and exactly once in a run that
\* got past it; a run with a setup query starts its workers, and so sends a
\* batch request, only after that one setup query was answered without error.
C22_SetupBeforeWorkers ==
    /\ setupSent <= 1
    /\ qs.setup = "" => setupSent = 0
    /\ (qs.setup # "" /\ mainPC \in {"setupQuery", "workers", "range", "body", "teardown",
                                       "teardownQuery"}) => setupSent = 1
    /\ mainPC = "setupQuery" => ~PoolStarted /\ requests = <<>>
    /\ (qs.setup # "" /\ (PoolStarted \/ requests # <<>>)) =>
        /\ setupSent = 1
        /\ "setup" \notin faults
        /\ mainPC \notin {"create", "setup", "setupQuery"}

\* A run with a setup query has a batch request at the engine.
C22_Witness ==
    /\ qs.setup # ""
    /\ setupSent = 1
    /\ Len(requests) >= 2
    /\ \E w \in Workers : workers[w].pc = "query"

\* C23 (as claimed): while the teardown query is at the engine, every worker
\* of the run has exited and none has a batch request at the engine.
C23_TeardownAfterAllBatches ==
    mainPC = "teardownQuery" =>
        \A w \in 1..concurrency : workers[w].pc = "done"

\* C24 (as claimed): a run with a setup and a teardown query whose setup
\* query succeeded has sent the teardown query once when it has returned.
C24_TeardownOnEveryExit ==
    (Returned /\ qs.setup # "" /\ qs.teardown # "" /\ setupSent = 1 /\ "setup" \notin faults) =>
        teardownSent = 1

\* How many batch requests are at the engine.
Outstanding == Cardinality({w \in Workers : workers[w].pc = "query"})

\* How many batches are in the pipeline: the one the producer has at its
\* send, and those the workers hold.
InPipeline ==
    (IF prodPC \in {"send452", "send458"} THEN 1 ELSE 0)
        + Cardinality({w \in Workers : workers[w].batch # <<>>})

\* The batches that were sent and have not all their records at the collector.
NotCollected ==
    {k \in 1..Len(emitted) : \E x \in InputsOf(emitted[k]) : ~Collected(x)}

\* C25: at most c batch requests are at the engine and at most c + 1 batches
\* are in the pipeline, c of them sent; in a run without faults those are all
\* the batches that are not yet at the collector: the channels hold none.
C25_PipelineBounded ==
    /\ Outstanding <= concurrency
    /\ InPipeline <= concurrency + 1
    /\ Cardinality({w \in Workers : workers[w].pc # "idle"}) <= concurrency
    /\ Clean =>
        /\ Cardinality(NotCollected) <= concurrency
        /\ Cardinality(NotCollected) = Cardinality({w \in Workers : workers[w].batch # <<>>})

\* Every worker of a pool of two has a request at the engine and the producer
\* is at the send of the next batch.
C25_Witness ==
    /\ concurrency = 2
    /\ Outstanding = 2
    /\ InPipeline = 3

\* C26 (as claimed): the failure of a pass does not end the sweep: the
\* process is there until every pair was run and the list was returned.
C26_SweepSurvivesFailedPass ==
    crashed => pass = PassCount + 1

\* The iteration index of the record with the input tuple x.
InputIndex(x) == CHOOSE i \in Indices : Args(qs, i) = x

\* The positions of the whole lines of the results file.
WholeLines == {j \in 1..Len(sink) : sink[j] # TruncatedLine}

\* C27: with one worker the lines of the results file are in increasing order
\* of iteration index, and when a run of one worker without faults returned
\* they are the lines of 0, 1, ... in that order; with any number of workers
\* the lines of the records of one batch are in increasing order of index.
C27_LinesInInputOrder ==
    /\ \A j, k \in WholeLines :
        j < k =>
            LET ij == InputIndex(sink[j][2])
                ik == InputIndex(sink[k][2])
            IN  /\ concurrency = 1 => ij < ik
                /\ (ij \div batchSize) = (ik \div batchSize) => ij < ik
    /\ (concurrency = 1 /\ Clean /\ Returned) =>
        sink = [j \in 1..qs.iterations |-> EchoLine(j - 1)]

\* Two workers wrote the lines of two batches, the second of which is the
\* last, shorter one, and the later batch came first.
C27_Witness ==
    /\ concurrency = 2
    /\ batchSize = 2
    /\ Clean
    /\ Returned
    /\ Len(sink) = 3
    /\ InputIndex(sink[1][2]) = 2

\* C28 (as claimed): from one iteration index to the next the first component
\* of the N-dimensional index changes and the last does not decrease.
C28_FirstChangesLastGrows ==
    \A m \in 1..(Len(uOut) - 1) :
        LET D == Len(uQS.lengths)
        IN  D >= 1 =>
                /\ uOut[m].indexN[1] # uOut[m + 1].indexN[1]
                /\ uOut[m].indexN[D] <= uOut[m + 1].indexN[D]

\* C28: from one iteration index to the next the first component of the
\* N-dimensional index changes if the first dimension has at least two values
\* and stays 0 if it has one, and the last component does not decrease.
C28_FirstChangesIfItCan ==
    \A m \in 1..(Len(uOut) - 1) :
        LET D == Len(uQS.lengths)
        IN  D >= 1 =>
                /\ uQS.lengths[1] >= 2 => uOut[m].indexN[1] # uOut[m + 1].indexN[1]
                /\ uQS.lengths[1] = 1 => uOut[m].indexN[1] = 0 /\ uOut[m + 1].indexN[1] = 0
                /\ uOut[m].indexN[D] <= uOut[m + 1].indexN[D]

\* All indices of a grid of two dimensions were unravelled: the first
\* component wrapped around and the last one grew.
C28_Witness ==
    /\ uQS.lengths = <<2, 3>>
    /\ uN = 6
    /\ uOut[2].indexN = <<1, 0>>
    /\ uOut[3].indexN = <<0, 1>>

====
